---------------------------- MODULE Spec2Model ----------------------------
(***************************************************************************)
(* Model of the pagination driver of src/patent_scraper.py:                *)
(* PatentScraper.setup_driver, wait_for_content_load, scrape_patent_page,  *)
(* scrape_all_pages and main.  The remote site and the browser are the     *)
(* environment: every driver call draws its outcome from a finite set.     *)
(***************************************************************************)
EXTENDS Integers, Sequences, FiniteSets, TLC

(* ---------------------------- bounds ----------------------------------- *)
MaxPage == 2
MaxRecords == 2
MaxRetries == 2
MaxDelay == 2

(* ------------------------ program constants ---------------------------- *)
\* time.sleep(5) in wait_for_content_load
SettleDelay == 5

\* placeholder_indicators of wait_for_content_load
placeholder_indicators ==
    { "Searching...",
      "Your search found no results",
      "Please note that ExploreIP does not provide a search of all known patents" }

VARIABLES
    start_page,         \* config.start_page
    end_page,           \* config.end_page
    rate_limit_delay,   \* config.rate_limit_delay
    max_retries,        \* config.max_retries
    pc,                 \* position of the single thread of control
    driver,             \* self.driver: "None" or "Chrome"
    iter,               \* next index the range iterator of the for loop yields
    page,               \* loop variable of the for loop (0 before the loop)
    retries,            \* loop-local retry counter
    all_patents,        \* the list scrape_all_pages accumulates
    exc,                \* exception in flight / that left scrape_all_pages
    exit_code,          \* process exit code of main (-1 while running)
    saved,              \* main wrote the raw, cleaned and summary files
    summary,            \* what main wrote into the summary file
    setupOutcome,       \* history: how setup_driver ended ("none" before)
    setupCalls,         \* history: number of setup_driver calls
    outcomes,           \* history: per page, the outcome of every attempt
    log,                \* history: driver and sleep events, in order
    arg,                \* argument of the function under call (function specifications)
    out                 \* its result

vars == << start_page, end_page, rate_limit_delay, max_retries, pc, driver,
           iter, page, retries, all_patents, exc, exit_code, saved, summary,
           setupOutcome, setupCalls, outcomes, log, arg, out >>

callVars == << arg, out >>

cfgVars == << start_page, end_page, rate_limit_delay, max_retries >>

Pages == 1..MaxPage

(* ------------------------- the environment ----------------------------- *)
\* How one call of setup_driver can end.
\*   ok            every step succeeds
\*   chrome_fails  WebDriverException from Service(...) / webdriver.Chrome(...)
\*   script_fails  WebDriverException from execute_script, after the driver
\*                 object was created and stored in self.driver
\*   install_raises ChromeDriverManager().install() raises an exception that
\*                 is not a WebDriverException (it is not caught)
SetupOutcomes == { "ok", "chrome_fails", "script_fails", "install_raises" }

\* What the remote page does during one attempt.
PageEnv ==
    [ get     : { "ok", "timeout", "error" },   \* driver.get(url)
      wait    : { "gone", "timeout" },          \* wait.until_not("Searching...")
      markers : SUBSET placeholder_indicators,  \* indicators in the body text
      parse   : { "ok", "error" },              \* page_source / BeautifulSoup
      nrec    : 0..MaxRecords ]                 \* valid records the page holds

\* The records extracted from page p when it holds n valid ones.
RECURSIVE RecordsOf(_, _)
RecordsOf(p, n) == IF n = 0 THEN << >> ELSE Append(RecordsOf(p, n - 1), << p, n >>)

(* --------------------------- setup_driver ------------------------------ *)
\* A second browser is started after the first one.
setup_driver_twice(o) ==
    CASE o = "ok" ->
           [ raised |-> FALSE, ret |-> TRUE,  driver |-> "Chrome",
             events |-> << << "create", 0 >>, << "create", 0 >> >> ]
      [] o = "chrome_fails" ->
           [ raised |-> FALSE, ret |-> FALSE, driver |-> "None",
             events |-> << >> ]
      [] o = "script_fails" ->
           [ raised |-> FALSE, ret |-> FALSE, driver |-> "Chrome",
             events |-> << << "create", 0 >> >> ]
      [] OTHER ->
           [ raised |-> TRUE,  ret |-> FALSE, driver |-> "None",
             events |-> << >> ]

setup_driver(o) ==
    CASE o = "ok" ->
           [ raised |-> FALSE, ret |-> TRUE,  driver |-> "Chrome",
             events |-> << << "create", 0 >> >> ]
      [] o = "chrome_fails" ->
           [ raised |-> FALSE, ret |-> FALSE, driver |-> "None",
             events |-> << >> ]
      [] o = "script_fails" ->
           [ raised |-> FALSE, ret |-> FALSE, driver |-> "Chrome",
             events |-> << << "create", 0 >> >> ]
      [] OTHER ->
           [ raised |-> TRUE,  ret |-> FALSE, driver |-> "None",
             events |-> << >> ]

(* ------------------------ wait_for_content_load ------------------------ *)
\* A timeout of the wait for "Searching..." to disappear ends the check at
\* once: not ready, no settle sleep.
wait_for_content_load_short_circuit(env) ==
    IF env.wait = "timeout"
    THEN [ ready |-> FALSE, events |-> << >> ]
    ELSE [ ready  |-> ~(\E indicator \in placeholder_indicators : indicator \in env.markers),
           events |-> << << "settle_sleep", SettleDelay >> >> ]

\* The TimeoutException of until_not is caught and only logged; the settle
\* sleep and the placeholder check follow on both paths.
wait_for_content_load(env) ==
    [ ready  |-> ~(\E indicator \in placeholder_indicators : indicator \in env.markers),
      events |-> << << "settle_sleep", SettleDelay >> >> ]

(* -------------------------- scrape_patent_page ------------------------- *)
\* A parsing exception returns the patents collected so far instead of [].
scrape_patent_page_partial(page_num, env) ==
    IF driver = "None"
    THEN [ raised |-> FALSE, patents |-> << >>, events |-> << >>, outcome |-> "error" ]
    ELSE LET nav == << << "get", page_num >> >>
             w   == wait_for_content_load(env)
         IN  IF env.get = "timeout"
             THEN [ raised |-> FALSE, patents |-> << >>, events |-> nav, outcome |-> "timeout" ]
             ELSE IF env.get = "error"
             THEN [ raised |-> FALSE, patents |-> << >>, events |-> nav, outcome |-> "error" ]
             ELSE IF ~w.ready
             THEN [ raised |-> FALSE, patents |-> << >>, events |-> nav \o w.events,
                    outcome |-> "not_ready" ]
             ELSE IF env.parse = "error"
             THEN [ raised |-> FALSE, patents |-> RecordsOf(page_num, env.nrec),
                    events |-> nav \o w.events, outcome |-> "error" ]
             ELSE [ raised |-> FALSE, patents |-> RecordsOf(page_num, env.nrec),
                    events |-> nav \o w.events, outcome |-> "accepted" ]

\* A page that is not ready, a timeout and any other error raise to the caller.
scrape_patent_page_raises(page_num, env) ==
    IF driver = "None"
    THEN [ raised |-> TRUE, patents |-> << >>, events |-> << >>, outcome |-> "error" ]
    ELSE LET nav == << << "get", page_num >> >>
             w   == wait_for_content_load(env)
         IN  IF env.get = "timeout"
             THEN [ raised |-> TRUE, patents |-> << >>, events |-> nav, outcome |-> "timeout" ]
             ELSE IF env.get = "error"
             THEN [ raised |-> TRUE, patents |-> << >>, events |-> nav, outcome |-> "error" ]
             ELSE IF ~w.ready
             THEN [ raised |-> TRUE, patents |-> << >>, events |-> nav \o w.events,
                    outcome |-> "not_ready" ]
             ELSE IF env.parse = "error"
             THEN [ raised |-> TRUE, patents |-> << >>, events |-> nav \o w.events,
                    outcome |-> "error" ]
             ELSE [ raised |-> FALSE, patents |-> RecordsOf(page_num, env.nrec),
                    events |-> nav \o w.events, outcome |-> "accepted" ]

\* Everything from driver.get on runs inside try; TimeoutException and every
\* other Exception are caught and turned into the empty list.
scrape_patent_page(page_num, env) ==
    IF driver = "None"
    THEN \* self.driver.get raises AttributeError, caught by except Exception
         [ raised |-> FALSE, patents |-> << >>, events |-> << >>, outcome |-> "error" ]
    ELSE LET nav == << << "get", page_num >> >>
             w   == wait_for_content_load(env)
         IN  IF env.get = "timeout"
             THEN [ raised |-> FALSE, patents |-> << >>, events |-> nav, outcome |-> "timeout" ]
             ELSE IF env.get = "error"
             THEN [ raised |-> FALSE, patents |-> << >>, events |-> nav, outcome |-> "error" ]
             ELSE IF ~w.ready
             THEN [ raised |-> FALSE, patents |-> << >>, events |-> nav \o w.events,
                    outcome |-> "not_ready" ]
             ELSE IF env.parse = "error"
             THEN [ raised |-> FALSE, patents |-> << >>, events |-> nav \o w.events,
                    outcome |-> "error" ]
             ELSE [ raised |-> FALSE, patents |-> RecordsOf(page_num, env.nrec),
                    events |-> nav \o w.events, outcome |-> "accepted" ]

(* --------------------------- scrape_all_pages -------------------------- *)
\* The result of setup_driver is ignored.
setup_failed_ignored(ret) == FALSE

\* if not self.setup_driver():
setup_failed(ret) == ~ret

\* A 1-based attempt counter.
initial_retries_from_one == 0 + 1

\* retries = 0
initial_retries == 0

\* The loop is not left after a successful scrape_patent_page.
after_success_no_break == "while"

\* break
after_success == "rate_sleep"

\* The rate-limit sleep is skipped for a page that yielded nothing.
rate_limit_sleep_if_records(got) ==
    IF got = << >> THEN << >> ELSE << << "rate_sleep", rate_limit_delay >> >>

\* time.sleep(self.config.rate_limit_delay), after the while loop
rate_limit_sleep(got) == << << "rate_sleep", rate_limit_delay >> >>

(* --------------------------------- main -------------------------------- *)
\* Nothing was written.
NoSummary == [ written |-> FALSE, total_patents |-> 0, pages_scraped |-> << >> ]

\* 'total_patents': len(all_patents)
total_patents(patents) == Len(patents)

\* The list starts at page 1 whatever start_page is.
pages_scraped_from_one(first, last) == [ i \in 1..last |-> i ]

\* 'pages_scraped': list(range(config.start_page, config.end_page + 1))
pages_scraped(first, last) == [ i \in 1..(last - first + 1) |-> first + i - 1 ]

\* The state after construction, with max_retries drawn from retry_values.
InitFor(retry_values) ==
    /\ start_page \in 1..MaxPage
    /\ end_page \in (start_page - 1)..MaxPage
    /\ rate_limit_delay \in 0..MaxDelay
    /\ max_retries \in retry_values
    /\ pc = "start"
    /\ driver = "None"
    /\ iter = 0
    /\ page = 0
    /\ retries = 0
    /\ all_patents = << >>
    /\ exc = "none"
    /\ exit_code = -1
    /\ saved = FALSE
    /\ summary = NoSummary
    /\ setupOutcome = "none"
    /\ setupCalls = 0
    /\ outcomes = [ p \in Pages |-> << >> ]
    /\ log = << >>
    /\ arg = << >>
    /\ out = << >>

Init == InitFor(0..MaxRetries)

\* max_retries may also be negative: the configuration file is not validated.
InitAnyRetries == InitFor((0 - MaxRetries)..MaxRetries)

\* main calls scrape_all_pages, which calls setup_driver and returns [] when
\* it reports failure; an exception of setup_driver propagates to main.
Setup ==
    /\ pc = "start"
    /\ \E o \in SetupOutcomes :
         LET s == setup_driver(o) IN
         /\ setupOutcome' = o
         /\ setupCalls' = setupCalls + 1
         /\ driver' = s.driver
         /\ log' = log \o s.events
         /\ IF s.raised
            THEN /\ exc' = "SetupError"
                 /\ pc' = "raised"
                 /\ iter' = iter
            ELSE IF setup_failed(s.ret)
            THEN /\ exc' = exc
                 /\ pc' = "returned"
                 /\ iter' = iter
            ELSE /\ exc' = exc
                 /\ pc' = "for"
                 /\ iter' = start_page
    /\ UNCHANGED << callVars, cfgVars, summary, page, retries, all_patents, exit_code, saved, outcomes >>

\* for page in range(start_page, end_page + 1): retries = 0
ForNext ==
    /\ pc = "for"
    /\ iter <= end_page
    /\ page' = iter
    /\ iter' = iter + 1
    /\ retries' = initial_retries
    /\ pc' = "while"
    /\ UNCHANGED << callVars, cfgVars, summary, driver, all_patents, exc, exit_code, saved,
                    setupOutcome, setupCalls, outcomes, log >>

\* The range is exhausted: return all_patents (through finally).
ForDone ==
    /\ pc = "for"
    /\ iter > end_page
    /\ pc' = "finally"
    /\ UNCHANGED << callVars, cfgVars, summary, driver, iter, page, retries, all_patents, exc,
                    exit_code, saved, setupOutcome, setupCalls, outcomes, log >>

\* The records of a page are inserted in front of the list.
AttemptPrepend ==
    /\ pc = "while"
    /\ retries < max_retries
    /\ \E env \in PageEnv :
         LET r == scrape_patent_page(page, env) IN
         /\ outcomes' = [ outcomes EXCEPT ![page] = Append(@, r.outcome) ]
         /\ IF r.raised
            THEN /\ retries' = retries + 1
                 /\ log' = log \o r.events
                               \o << << "retry_sleep", rate_limit_delay * 2 >> >>
                 /\ all_patents' = all_patents
                 /\ pc' = "while"
            ELSE /\ retries' = retries
                 /\ log' = log \o r.events
                 /\ all_patents' = r.patents \o all_patents
                 /\ pc' = after_success
    /\ UNCHANGED << callVars, cfgVars, summary, driver, iter, page, exc, exit_code, saved,
                    setupOutcome, setupCalls >>

\* One iteration of while retries < max_retries: the try block and its
\* except Exception handler.
Attempt ==
    /\ pc = "while"
    /\ retries < max_retries
    /\ \E env \in PageEnv :
         LET r == scrape_patent_page(page, env) IN
         /\ outcomes' = [ outcomes EXCEPT ![page] = Append(@, r.outcome) ]
         /\ IF r.raised
            THEN /\ retries' = retries + 1
                 /\ log' = log \o r.events
                               \o << << "retry_sleep", rate_limit_delay * 2 >> >>
                 /\ all_patents' = all_patents
                 /\ pc' = "while"
            ELSE /\ retries' = retries
                 /\ log' = log \o r.events
                 /\ all_patents' = all_patents \o r.patents
                 /\ pc' = after_success
    /\ UNCHANGED << callVars, cfgVars, summary, driver, iter, page, exc, exit_code, saved,
                    setupOutcome, setupCalls >>

\* The while condition is false: the loop is left without a further attempt.
WhileDone ==
    /\ pc = "while"
    /\ ~(retries < max_retries)
    /\ pc' = "rate_sleep"
    /\ UNCHANGED << callVars, cfgVars, summary, driver, iter, page, retries, all_patents, exc,
                    exit_code, saved, setupOutcome, setupCalls, outcomes, log >>

\* time.sleep(rate_limit_delay) at the end of the for body.
RateSleep ==
    /\ pc = "rate_sleep"
    /\ log' = log \o rate_limit_sleep(SelectSeq(all_patents, LAMBDA rec : rec[1] = page))
    /\ pc' = "for"
    /\ UNCHANGED << callVars, cfgVars, summary, driver, iter, page, retries, all_patents, exc,
                    exit_code, saved, setupOutcome, setupCalls, outcomes >>

\* A KeyboardInterrupt (not an Exception) raised inside the try block.
Interrupt ==
    /\ pc \in { "for", "while", "rate_sleep" }
    /\ exc' = "KeyboardInterrupt"
    /\ pc' = "finally"
    /\ UNCHANGED << callVars, cfgVars, summary, driver, iter, page, retries, all_patents,
                    exit_code, saved, setupOutcome, setupCalls, outcomes, log >>

\* finally: if self.driver: self.driver.quit()
Finally ==
    /\ pc = "finally"
    /\ log' = IF driver # "None" THEN Append(log, << "quit", 0 >>) ELSE log
    /\ pc' = IF exc = "none" THEN "returned" ELSE "raised"
    /\ UNCHANGED << callVars, cfgVars, summary, driver, iter, page, retries, all_patents, exc,
                    exit_code, saved, setupOutcome, setupCalls, outcomes >>

\* main after scrape_all_pages returned: write the files if there are
\* records, log an error otherwise; main returns and the process exits 0.
MainReturns ==
    /\ pc = "returned"
    /\ saved' = (all_patents # << >>)
    /\ summary' = IF all_patents # << >>
                  THEN [ written       |-> TRUE,
                         total_patents |-> total_patents(all_patents),
                         pages_scraped |-> pages_scraped(start_page, end_page) ]
                  ELSE NoSummary
    /\ exit_code' = 0
    /\ pc' = "exit"
    /\ UNCHANGED << callVars, cfgVars, driver, iter, page, retries, all_patents, exc,
                    setupOutcome, setupCalls, outcomes, log >>

\* main left by the exception that left scrape_all_pages: nothing catches
\* it and the interpreter exits with a non-zero code.
MainCrashes ==
    /\ pc = "raised"
    /\ exit_code' = 1
    /\ pc' = "exit"
    /\ UNCHANGED << callVars, cfgVars, summary, driver, iter, page, retries, all_patents, exc,
                    saved, setupOutcome, setupCalls, outcomes, log >>

Next ==
    \/ Setup
    \/ ForNext
    \/ ForDone
    \/ Attempt
    \/ WhileDone
    \/ RateSleep
    \/ Interrupt
    \/ Finally
    \/ MainReturns
    \/ MainCrashes

Spec == Init /\ [][Next]_vars

\* The single thread keeps running until the process exits.
FairSpec == Spec /\ WF_vars(Next)

\* The same program, started with any max_retries a configuration file can hold.
AnyRetriesSpec == InitAnyRetries /\ [][Next]_vars


(* ------------------------------ text ----------------------------------- *)
\* A text is a sequence of tokens: a token is one whitespace character or a
\* run of non-whitespace characters (its length is the length of the run).
WhitespaceChars == { " ", "\t", "\n" }

IsSpace(t) == t \in WhitespaceChars

\* len(text)
RECURSIVE CharLen(_)
CharLen(s) == IF s = << >> THEN 0 ELSE Len(Head(s)) + CharLen(Tail(s))

RECURSIVE lstrip(_)
lstrip(s) == IF s # << >> /\ IsSpace(Head(s)) THEN lstrip(Tail(s)) ELSE s

RECURSIVE rstrip(_)
rstrip(s) ==
    IF s # << >> /\ IsSpace(s[Len(s)]) THEN rstrip(SubSeq(s, 1, Len(s) - 1)) ELSE s

\* str.strip()
strip(s) == rstrip(lstrip(s))

\* re.sub(r'\s+', ' ', s)
RECURSIVE collapse_whitespace(_)
collapse_whitespace(s) ==
    IF s = << >> THEN << >>
    ELSE IF IsSpace(Head(s))
         THEN << " " >> \o collapse_whitespace(lstrip(s))
         ELSE << Head(s) >> \o collapse_whitespace(Tail(s))

\* The longest prefix of s without a separator token.
RECURSIVE TakeUntil(_, _)
TakeUntil(s, seps) ==
    IF s = << >> \/ Head(s) \in seps THEN << >>
    ELSE << Head(s) >> \o TakeUntil(Tail(s), seps)

\* str.split(): the maximal runs of non-whitespace, in order.
RECURSIVE split(_)
split(s) ==
    LET t == lstrip(s) IN
    IF t = << >> THEN << >>
    ELSE LET w == TakeUntil(t, WhitespaceChars)
         IN  << w >> \o split(SubSeq(t, Len(w) + 1, Len(t)))

\* " ".join(words)
RECURSIVE join(_)
join(words) ==
    IF words = << >> THEN << >>
    ELSE IF Len(words) = 1 THEN words[1]
    ELSE words[1] \o << " " >> \o join(Tail(words))

\* str.split('\n')
RECURSIVE split_lines(_)
split_lines(s) ==
    LET l == TakeUntil(s, { "\n" }) IN
    IF Len(l) = Len(s) THEN << l >>
    ELSE << l >> \o split_lines(SubSeq(s, Len(l) + 2, Len(s)))

\* pat in s
Contains(s, pat) ==
    \E i \in 1..(Len(s) - Len(pat) + 1) : SubSeq(s, i, i + Len(pat) - 1) = pat

(* ----------------------------- PatentData ------------------------------ *)
\* PatentData(): every field defaults to the empty string.
PatentData ==
    [ title |-> << >>, patent_number |-> << >>, organization |-> << >>,
      patent_type |-> << >>, year |-> << >>, date_added |-> << >>,
      url |-> << >>, description |-> << >> ]

\* Only the title is looked at.
is_valid_title_only(rec) == strip(rec.title) # << >>

\* bool(self.title.strip() or self.patent_number.strip())
is_valid(rec) == strip(rec.title) # << >> \/ strip(rec.patent_number) # << >>

(* ------------------------- clean_patent_title -------------------------- *)
\* if len(words) > 10
DuplicateMinWords == 10

\* The halves are compared whatever the number of words.
clean_patent_title_any_length(title) ==
    IF title = << >> THEN << >>
    ELSE LET t     == collapse_whitespace(strip(title))
             words == split(t)
             midpoint    == Len(words) \div 2
             first_half  == join(SubSeq(words, 1, midpoint))
             second_half == join(SubSeq(words, midpoint + 1, Len(words)))
         IN  IF Len(words) > 0 /\ strip(first_half) = strip(second_half)
             THEN strip(first_half)
             ELSE t

clean_patent_title(title) ==
    IF title = << >> THEN << >>
    ELSE LET t     == collapse_whitespace(strip(title))
             words == split(t)
             midpoint    == Len(words) \div 2
             first_half  == join(SubSeq(words, 1, midpoint))
             second_half == join(SubSeq(words, midpoint + 1, Len(words)))
         IN  IF Len(words) > DuplicateMinWords /\ strip(first_half) = strip(second_half)
             THEN strip(first_half)
             ELSE t

(* -------------------- extract_patent_from_element ---------------------- *)
\* The words separated by single spaces.
RECURSIVE Text(_)
Text(words) ==
    IF words = << >> THEN << >>
    ELSE IF Len(words) = 1 THEN << words[1] >>
    ELSE << words[1], " " >> \o Text(Tail(words))

skip_indicators ==
    { Text(<< "Searching..." >>),
      Text(<< "Keyword", "search" >>),
      Text(<< "Save", "your", "search" >>),
      Text(<< "Collaboration", "Opportunities" >>),
      Text(<< "Licensing", "Opportunity" >>),
      Text(<< "Your", "search", "found", "no", "results" >>),
      Text(<< "Please", "note", "that", "ExploreIP" >>) }

\* len(line) > 10 of the title fallback
MinTitleLineLen == 10

\* len(text) > 50 of the div fallback
MinDivTextLen == 50

\* What select_one(selector) finds in a container: nothing, or an element
\* with some text.
Absent == [ present |-> FALSE, text |-> << >> ]

Present(t) == [ present |-> TRUE, text |-> t ]

\* The selectors extract_patent_from_element uses.
ChildSelectors ==
    << "result_title", "publication_number", "organisation", "ip_type",
       "filed", "date_added", "invention_description" >>

\* item.get_text(): the container's own text and the text of its children,
\* in document order, one per line.
RECURSIVE ChildrenText(_, _)
ChildrenText(item, k) ==
    IF k > Len(ChildSelectors) THEN << >>
    ELSE (IF item[ChildSelectors[k]].present
          THEN << "\n" >> \o item[ChildSelectors[k]].text
          ELSE << >>)
         \o ChildrenText(item, k + 1)

get_text(item) == item.own \o ChildrenText(item, 1)

\* all(indicator in text ...) instead of any(...)
has_skip_indicator_all(text) ==
    \A indicator \in skip_indicators : Contains(text, indicator)

\* any(indicator in text for indicator in skip_indicators)
has_skip_indicator(text) ==
    \E indicator \in skip_indicators : Contains(text, indicator)

\* element.get_text().strip() if the element was found, else the default ""
StrippedText(found) == IF found.present THEN strip(found.text) ELSE << >>

\* The first line that holds no skip indicator and is longer than 10.
RECURSIVE FirstTitleLine(_)
FirstTitleLine(lines) ==
    IF lines = << >> THEN << >>
    ELSE IF ~has_skip_indicator(Head(lines)) /\ CharLen(Head(lines)) > MinTitleLineLen
         THEN clean_patent_title(Head(lines))
         ELSE FirstTitleLine(Tail(lines))

\* lines = [line.strip() for line in text_content.split('\n') if line.strip()]
StrippedLines(text) ==
    LET all == split_lines(text)
        stripped == [ i \in 1..Len(all) |-> strip(all[i]) ]
    IN  SelectSeq(stripped, LAMBDA l : l # << >>)

\* The fields of the record, after the skip check.
extract_fields(item, text_content) ==
    LET title_text == StrippedText(item.result_title)
        title1 == IF item.result_title.present /\ title_text # << >>
                     /\ ~has_skip_indicator(title_text)
                  THEN clean_patent_title(title_text)
                  ELSE << >>
        title2 == IF title1 = << >> /\ text_content # << >>
                  THEN FirstTitleLine(StrippedLines(text_content))
                  ELSE title1
    IN  [ title         |-> title2,
          patent_number |-> StrippedText(item.publication_number),
          organization  |-> StrippedText(item.organisation),
          patent_type   |-> StrippedText(item.ip_type),
          year          |-> StrippedText(item.filed),
          date_added    |-> StrippedText(item.date_added),
          description   |-> StrippedText(item.invention_description),
          url           |-> IF item.href.present /\ item.href.text # << >>
                            THEN << "https://ised-isde.canada.ca" >> \o item.href.text
                            ELSE << >> ]

\* The result of extract_patent_from_element: None, or a record.
None == [ some |-> FALSE, patent |-> PatentData ]

Some(rec) == [ some |-> TRUE, patent |-> rec ]

\* return patent, without the is_valid() check
extract_patent_from_element_unchecked(item) ==
    LET text_content == strip(get_text(item)) IN
    IF has_skip_indicator(text_content) THEN None
    ELSE Some(extract_fields(item, text_content))

extract_patent_from_element(item) ==
    LET text_content == strip(get_text(item)) IN
    IF has_skip_indicator(text_content) THEN None
    ELSE LET patent == extract_fields(item, text_content)
         IN  IF is_valid(patent) THEN Some(patent) ELSE None

(* ------------- scrape_patent_page: from the soup to the list ----------- *)
\* patent = self.extract_patent_from_element(c); if patent: patents.append(patent)
\* for every container c of s, in order.
RECURSIVE ExtractAll(_)
ExtractAll(s) ==
    IF s = << >> THEN << >>
    ELSE LET r == extract_patent_from_element(Head(s))
         IN  (IF r.some THEN << r.patent >> ELSE << >>) \o ExtractAll(Tail(s))

\* if row.select_one('.result-title')
RowHasTitle(row) == row.result_title.present

\* len(text) > 50 and not any(skip in text for skip in ["Searching...", "Keyword search"])
DivIsSubstantial(div) ==
    LET text == strip(get_text(div)) IN
    /\ CharLen(text) > MinDivTextLen
    /\ ~Contains(text, Text(<< "Searching..." >>))
    /\ ~Contains(text, Text(<< "Keyword", "search" >>))

\* soup.rows: the tr elements whose class holds 'ng-scope';
\* soup.divs: all div elements.
\* The candidate containers of the primary strategy and what they yield.
candidate_rows(soup) == SelectSeq(soup.rows, RowHasTitle)

primary_patents(soup) == ExtractAll(candidate_rows(soup))

\* if not patents:
div_fallback_runs(soup) == primary_patents(soup) = << >>

extract_patents_from_soup(soup) ==
    IF div_fallback_runs(soup)
    THEN ExtractAll(SelectSeq(soup.divs, DivIsSubstantial))
    ELSE primary_patents(soup)

(* ------------------- specifications of single functions ---------------- *)
\* The scraper is not running: only arg, out and pc change.
Idle ==
    /\ start_page = 1
    /\ end_page = 0
    /\ rate_limit_delay = 0
    /\ max_retries = 0
    /\ pc = "call"
    /\ driver = "None"
    /\ iter = 0
    /\ page = 0
    /\ retries = 0
    /\ all_patents = << >>
    /\ exc = "none"
    /\ exit_code = -1
    /\ saved = FALSE
    /\ summary = NoSummary
    /\ setupOutcome = "none"
    /\ setupCalls = 0
    /\ outcomes = [ p \in Pages |-> << >> ]
    /\ log = << >>
    /\ out = << >>

\* The function under call returns result.
Return(result) ==
    /\ pc = "call"
    /\ out' = result
    /\ pc' = "ret"
    /\ UNCHANGED << arg, cfgVars, summary, driver, iter, page, retries, all_patents, exc,
                    exit_code, saved, setupOutcome, setupCalls, outcomes, log >>

\* Sequences over S of length 0..n.
SeqsUpTo(S, n) == UNION { [ 1..k -> S ] : k \in 0..n }

\* --- PatentData.is_valid
FieldTexts ==
    { << >>, << " " >>, << "\t", " " >>, << "a" >>, << " ", "a", " " >> }

ValidInit ==
    /\ Idle
    /\ \E t, n \in FieldTexts, o, d \in { << >>, << "x" >> } :
         arg = [ PatentData EXCEPT !.title = t, !.patent_number = n,
                                   !.organization = o, !.description = d ]

ValidCall == Return(is_valid(arg))

ValidSpec == ValidInit /\ [][ValidCall]_vars

\* --- PatentScraper.clean_patent_title
MaxWords == 12

TitleWords == { "a", "b" }

\* The words separated by single spaces, by runs of two whitespace
\* characters, or by single spaces with whitespace around the whole.
RECURSIVE Render(_, _)
Render(words, sep) ==
    IF words = << >> THEN << >>
    ELSE IF Len(words) = 1 THEN << words[1] >>
    ELSE << words[1] >> \o sep \o Render(Tail(words), sep)

Titles ==
    { Render(w, << " " >>) : w \in SeqsUpTo(TitleWords, MaxWords) }
    \cup { Render(w, << " ", "\t" >>) : w \in SeqsUpTo(TitleWords, MaxWords) }
    \cup { << " ", "\n" >> \o Render(w, << " " >>) \o << " " >> :
              w \in SeqsUpTo(TitleWords, MaxWords) }

TitleInit == Idle /\ arg \in Titles

TitleCall == Return(clean_patent_title(arg))

TitleSpec == TitleInit /\ [][TitleCall]_vars

\* --- PatentScraper.clean_patent_title, applied to its own result
MaxPhrase == 3

MaxRepeat == 8

\* k verbatim repetitions of a phrase.
RECURSIVE Repeat(_, _)
Repeat(phrase, k) == IF k = 0 THEN << >> ELSE phrase \o Repeat(phrase, k - 1)

RepeatedTitles ==
    { Render(Repeat(ph, k), << " " >>) :
        ph \in SeqsUpTo(TitleWords, MaxPhrase) \ { << >> }, k \in 1..MaxRepeat }

TwiceInit == Idle /\ arg \in (Titles \cup RepeatedTitles)

TwiceCall ==
    Return([ once  |-> clean_patent_title(arg),
             twice |-> clean_patent_title(clean_patent_title(arg)) ])

TwiceSpec == TwiceInit /\ [][TwiceCall]_vars

\* --- PatentScraper.extract_patent_from_element
WidgetTitle == Text(<< "Widget", "Improvement", "Widget", "Improvement" >>)

LongOwnText ==
    Text(<< "Photovoltaic", "nanostructure", "fabrication", "apparatus", "CA1234567" >>)

OwnTexts == { << >>, << "a" >>, Text(<< "Keyword", "search" >>), LongOwnText }

TitleElems == { Absent, Present(<< >>), Present(<< " ", "a", "\t" >>), Present(WidgetTitle) }

NumberElems == { Absent, Present(<< " " >>), Present(<< "CA1234567" >>) }

DescriptionElems == { Absent, Present(<< " ", "x", " ", "\n", "y" >>) }

Container(own, title, number, desc) ==
    [ own |-> own, result_title |-> title, publication_number |-> number,
      organisation |-> Absent, ip_type |-> Absent, filed |-> Absent,
      date_added |-> Absent, invention_description |-> desc, href |-> Absent ]

Elements ==
    { Container(o, t, n, d) :
        o \in OwnTexts, t \in TitleElems, n \in NumberElems, d \in DescriptionElems }

ElementInit == Idle /\ arg \in Elements

ElementCall == Return(extract_patent_from_element(arg))

ElementSpec == ElementInit /\ [][ElementCall]_vars

\* --- PatentScraper.scrape_patent_page, from the parsed page on
MaxRows == 1

PageElements == { e \in Elements : ~e.invention_description.present }

Soups ==
    [ rows : SeqsUpTo(PageElements, MaxRows),
      divs : { << >> } \cup { << d >> : d \in PageElements } ]

ExtractInit == Idle /\ arg \in Soups

ExtractCall == Return(extract_patents_from_soup(arg))

ExtractSpec == ExtractInit /\ [][ExtractCall]_vars

\* --- PatentScraper.wait_for_content_load
WaitInit == Idle /\ arg \in PageEnv

WaitCall == Return(wait_for_content_load(arg))

WaitSpec == WaitInit /\ [][WaitCall]_vars

(* ------------- GooglePatentScraper: the multi-valued fields ------------ *)
\* The text of an element, as far as the patterns see it: a sequence of
\* identifiers << prefix, number >>.
\*   r'US\d+[A-Z]?\d*', r'WO\d+[A-Z]?\d*', r'EP\d+[A-Z]?\d*'
patent_patterns == << "US", "WO", "EP" >>

\*   r'[A-Z]\d{2}[A-Z]\s+\d{2}/\d{2}'
ipc_pattern == << "IPC" >>

\* re.findall(pattern, text)
findall(pattern, text) == SelectSeq(text, LAMBDA t : t[1] = pattern)

\* for pattern in patterns: matches = re.findall(pattern, text); acc.extend(matches)
RECURSIVE MatchesInText(_, _)
MatchesInText(text, patterns) ==
    IF patterns = << >> THEN << >>
    ELSE findall(Head(patterns), text) \o MatchesInText(text, Tail(patterns))

\* for element in elements: ...
RECURSIVE MatchesInElements(_, _)
MatchesInElements(elements, patterns) ==
    IF elements = << >> THEN << >>
    ELSE MatchesInText(Head(elements), patterns)
         \o MatchesInElements(Tail(elements), patterns)

\* for selector in selectors: elements = soup.select(selector); ...
\* found[k] is what soup.select finds for the k-th selector.
RECURSIVE MatchesInSoup(_, _, _)
MatchesInSoup(found, k, patterns) ==
    IF k > Len(found) THEN << >>
    ELSE MatchesInElements(found[k], patterns) \o MatchesInSoup(found, k + 1, patterns)

\* The keyword patterns, with re.IGNORECASE: 'Prior art keywords[:\s]+([^,\n]+)'
\* matches the lines labelled "Prior art keywords"; 'Keywords[:\s]+([^,\n]+)'
\* matches those and the lines labelled "Keywords".
keyword_patterns == << { "Prior art keywords" }, { "Prior art keywords", "Keywords" } >>

\* for match in re.findall(pattern, text): keywords.extend(
\*     [word.strip() for word in match.split(',')])   (a match holds no comma)
RECURSIVE KeywordsInText(_, _)
KeywordsInText(lines, patterns) ==
    IF patterns = << >> THEN << >>
    ELSE LET hits == SelectSeq(lines, LAMBDA l : l.label \in Head(patterns))
         IN  [ i \in 1..Len(hits) |-> strip(hits[i].value) ]
             \o KeywordsInText(lines, Tail(patterns))

Range(s) == { s[i] : i \in 1..Len(s) }

NoList == [ some |-> FALSE, list |-> << >> ]

\* return items if items else None
plain_list(items) ==
    IF items = << >> THEN { NoList } ELSE { [ some |-> TRUE, list |-> items ] }

\* return list(set(items)) if items else None: the elements of the set, in
\* an order the program does not determine.
list_of_set(items) ==
    IF items = << >> THEN { NoList }
    ELSE { [ some |-> TRUE, list |-> l ] :
             l \in { m \in [ 1..Cardinality(Range(items)) -> Range(items) ] :
                       Range(m) = Range(items) } }

_extract_prior_art_keywords(soup) == list_of_set(KeywordsInText(soup.text, keyword_patterns))

_extract_cited_patents(soup) == list_of_set(MatchesInSoup(soup.found, 1, patent_patterns))

_extract_citing_patents(soup) == list_of_set(MatchesInSoup(soup.found, 1, patent_patterns))

_extract_family_members(soup) == list_of_set(MatchesInSoup(soup.found, 1, patent_patterns))

_extract_classification_codes(soup) == list_of_set(MatchesInSoup(soup.found, 1, ipc_pattern))

\* The entry of patent_info for one multi-valued field.
MultiValuedFields ==
    { "prior_art_keywords", "cited_patents", "citing_patents", "family_members",
      "classification_codes" }

extract_field(field, soup) ==
    CASE field = "prior_art_keywords"   -> _extract_prior_art_keywords(soup)
      [] field = "cited_patents"        -> _extract_cited_patents(soup)
      [] field = "citing_patents"       -> _extract_citing_patents(soup)
      [] field = "family_members"       -> _extract_family_members(soup)
      [] field = "classification_codes" -> _extract_classification_codes(soup)

MaxMatches == 2

PatentIds == { << "US", 1 >>, << "WO", 1 >> }

IpcCodes == { << "IPC", 1 >>, << "IPC", 2 >> }

KeywordLines ==
    { [ label |-> "Prior art keywords", value |-> << "x" >> ],
      [ label |-> "Keywords", value |-> << "x", " " >> ],
      [ label |-> "Keywords", value |-> << "y" >> ] }

\* What the three selectors of a field find: no element or one element each.
FoundSets(tokens) ==
    [ 1..3 -> { << >> } \cup { << t >> : t \in SeqsUpTo(tokens, MaxMatches) } ]

NothingFound == [ k \in 1..3 |-> << >> ]

MultiInit ==
    /\ Idle
    /\ \/ \E f \in { "cited_patents", "citing_patents", "family_members" },
             fs \in FoundSets(PatentIds) :
               arg = [ field |-> f, found |-> fs, text |-> << >> ]
       \/ \E fs \in FoundSets(IpcCodes) :
               arg = [ field |-> "classification_codes", found |-> fs, text |-> << >> ]
       \/ \E t \in SeqsUpTo(KeywordLines, MaxMatches + 1) :
               arg = [ field |-> "prior_art_keywords", found |-> NothingFound, text |-> t ]

MultiCall == \E r \in extract_field(arg.field, arg) : Return(r)

MultiSpec == MultiInit /\ [][MultiCall]_vars

(* ----------------------- PatentScraperConfig.__init__ ------------------ *)
ConfigFields ==
    { "base_url", "start_page", "end_page", "timeout", "rate_limit_delay", "max_retries" }

\* The second arguments of scraper_config.get and the values of the except
\* branch (they are the same).
config_defaults ==
    [ base_url         |-> "https://ised-isde.canada.ca/ipm-mcpi/patents-brevets",
      start_page       |-> 1,
      end_page         |-> 20,
      timeout          |-> 30,
      rate_limit_delay |-> 5,
      max_retries      |-> 3 ]

\* scraper_config.get(field) or default
config_get_or_default(scraper_config, field) ==
    IF /\ scraper_config[field].present
       /\ IF field = "base_url" THEN scraper_config[field].value # ""
                                ELSE scraper_config[field].value # 0
    THEN scraper_config[field].value
    ELSE config_defaults[field]

\* scraper_config.get(field, default)
config_get(scraper_config, field) ==
    IF scraper_config[field].present
    THEN scraper_config[field].value
    ELSE config_defaults[field]

\* config_data.get('scraper', {})
EmptyScraperConfig == [ f \in ConfigFields |-> [ present |-> FALSE, value |-> 0 ] ]

\* file.status: "missing" (FileNotFoundError), "invalid" (JSONDecodeError) or
\* "loaded", a JSON object that may hold a 'scraper' object.
PatentScraperConfig(file) ==
    IF file.status \in { "missing", "invalid" }
    THEN config_defaults
    ELSE LET scraper_config == IF file.has_scraper THEN file.scraper ELSE EmptyScraperConfig
         IN  [ f \in ConfigFields |-> config_get(scraper_config, f) ]

ConfiguredNumbers == { 0, 42 }

ScraperConfigs ==
    { [ f \in ConfigFields |->
          IF f = "base_url"
          THEN (IF u THEN [ present |-> TRUE, value |-> "http://localhost/patents" ]
                     ELSE [ present |-> FALSE, value |-> 0 ])
          ELSE n[f] ] :
        u \in BOOLEAN,
        n \in [ ConfigFields \ { "base_url" } ->
                  { [ present |-> FALSE, value |-> 0 ] }
                  \cup { [ present |-> TRUE, value |-> v ] : v \in ConfiguredNumbers } ] }

ConfigFiles ==
    { [ status |-> st, has_scraper |-> FALSE, scraper |-> EmptyScraperConfig ] :
        st \in { "missing", "invalid", "loaded" } }
    \cup { [ status |-> "loaded", has_scraper |-> TRUE, scraper |-> sc ] :
             sc \in ScraperConfigs }

ConfigInit == Idle /\ arg \in ConfigFiles

ConfigCall == Return(PatentScraperConfig(arg))

ConfigSpec == ConfigInit /\ [][ConfigCall]_vars

(* ------------------- GooglePatentScraper.get_patent_info --------------- *)
\* The entries of patent_info that an _extract_* helper computes.
InfoFields ==
    { "title", "publication_number", "authority", "legal_status", "application_number",
      "inventors", "assignees", "priority_date", "filing_date", "publication_date",
      "grant_date", "expiration_date", "abstract", "claims", "description",
      "prior_art_keywords", "legal_events", "cited_patents", "citing_patents",
      "family_members", "classification_codes" }

\* A helper without its try/except: the exception leaves the helper.
_extract_helper_uncaught(o) ==
    [ raised |-> o = "raises", value |-> IF o = "found" THEN "value" ELSE "None" ]

\* One _extract_* helper. o is what its body does: "found" it returns a
\* value, "nothing" it finds nothing and returns None, "raises" an
\* exception is raised inside its try block, caught by except Exception
\* and turned into None.
_extract_helper(o) ==
    [ raised |-> FALSE, value |-> IF o = "found" THEN "value" ELSE "None" ]

InfoError == [ error |-> TRUE, info |-> [ f \in InfoFields |-> "None" ] ]

\* response.fetch: session.get / raise_for_status succeed or raise a
\* RequestException; response.helpers: what the body of each helper does.
get_patent_info(response) ==
    IF response.fetch = "request_error" THEN InfoError
    ELSE IF \E f \in InfoFields : _extract_helper(response.helpers[f]).raised
    THEN InfoError
    ELSE [ error |-> FALSE,
           info  |-> [ f \in InfoFields |-> _extract_helper(response.helpers[f]).value ] ]

\* Up to two helpers raise and up to one finds nothing; the others find a value.
InfoPages ==
    { [ fetch   |-> ft,
        helpers |-> [ f \in InfoFields |->
                        IF f \in { a, b } THEN "raises"
                        ELSE IF f = c THEN "nothing" ELSE "found" ] ] :
        ft \in { "ok", "request_error" },
        a \in InfoFields \cup { "-" }, b \in InfoFields \cup { "-" },
        c \in InfoFields \cup { "-" } }

\* Field extraction in both scrapers: a container of the listing page or
\* a page of Google Patents.
FieldFailureInit == Idle /\ arg \in (Elements \cup InfoPages)

FieldElementCall == "own" \in DOMAIN arg /\ ElementCall

InfoCall == "fetch" \in DOMAIN arg /\ Return(get_patent_info(arg))

FieldFailureSpec == FieldFailureInit /\ [][FieldElementCall \/ InfoCall]_vars

(* ----------------------- main: the run summary ------------------------- *)
\* 'patents_with_titles': len([p for p in all_patents if p.title])
patents_with_titles(patents) == Len(SelectSeq(patents, LAMBDA p : p.title # << >>))

\* 'patents_with_numbers': len([p for p in all_patents if p.patent_number])
patents_with_numbers(patents) == Len(SelectSeq(patents, LAMBDA p : p.patent_number # << >>))

\* 'unique_organizations': len(set(p.organization for p in all_patents if p.organization))
unique_organizations(patents) ==
    Cardinality({ patents[i].organization :
                    i \in { j \in 1..Len(patents) : patents[j].organization # << >> } })

\* What main writes for the list scrape_all_pages returned: the summary if
\* the list is not empty, nothing otherwise.
main_summary(patents, first, last) ==
    IF patents # << >>
    THEN [ written              |-> TRUE,
           total_patents        |-> total_patents(patents),
           pages_scraped        |-> pages_scraped(first, last),
           patents_with_titles  |-> patents_with_titles(patents),
           patents_with_numbers |-> patents_with_numbers(patents),
           unique_organizations |-> unique_organizations(patents) ]
    ELSE [ written              |-> FALSE,
           total_patents        |-> 0,
           pages_scraped        |-> << >>,
           patents_with_titles  |-> 0,
           patents_with_numbers |-> 0,
           unique_organizations |-> 0 ]

\* Containers with and without title, patent number and organisation.
SummaryElements ==
    { Container(<< >>, Absent, Absent, Absent),
      Container(<< >>, Present(WidgetTitle), Absent, Absent),
      [ Container(<< >>, Absent, Present(<< "CA1234567" >>), Absent)
          EXCEPT !.organisation = Present(<< "Acme" >>) ],
      [ Container(<< >>, Present(WidgetTitle), Present(<< "CA1234567" >>), Absent)
          EXCEPT !.organisation = Present(<< "Acme" >>) ],
      [ Container(<< >>, Present(WidgetTitle), Present(<< "CA7654321" >>), Absent)
          EXCEPT !.organisation = Present(<< "Beta" >>) ] }

\* The records extract_patent_from_element emits for them.
SummaryRecords ==
    { extract_patent_from_element(e).patent :
        e \in { c \in SummaryElements : extract_patent_from_element(c).some } }

\* all_patents.extend(patents) for every page of the range, in order.
RECURSIVE ReturnedList(_, _, _)
ReturnedList(per_page, first, last) ==
    IF first > last THEN << >>
    ELSE per_page[first] \o ReturnedList(per_page, first + 1, last)

SummaryInit ==
    /\ Idle
    /\ \E first \in 1..MaxPage :
       \E last \in (first - 1)..MaxPage :
       \E per_page \in [ 1..MaxPage -> SeqsUpTo(SummaryRecords, MaxRows) ] :
           arg = [ start_page |-> first, end_page |-> last, per_page |-> per_page ]

SummaryCall ==
    Return(main_summary(ReturnedList(arg.per_page, arg.start_page, arg.end_page),
                        arg.start_page, arg.end_page))

SummarySpec == SummaryInit /\ [][SummaryCall]_vars

(* ----------------------- reading the history --------------------------- *)
\* Number of events of kind k in the log.
CountEvents(k) == Cardinality({ i \in 1..Len(log) : log[i][1] = k })

\* Number of driver.get calls for page p.
Gets(p) == Cardinality({ i \in 1..Len(log) : log[i] = << "get", p >> })

IsSleep(e) == e[1] \in { "settle_sleep", "retry_sleep", "rate_sleep" }

\* Seconds slept by the events strictly between positions i and j of the log.
RECURSIVE SleptBetween(_, _)
SleptBetween(i, j) ==
    IF i + 1 >= j THEN 0
    ELSE (IF IsSleep(log[i + 1]) THEN log[i + 1][2] ELSE 0) + SleptBetween(i + 1, j)

\* Positions i < j of two consecutive driver.get calls.
ConsecutiveGets(i, j) ==
    /\ i < j
    /\ log[i][1] = "get"
    /\ log[j][1] = "get"
    /\ \A k \in (i + 1)..(j - 1) : log[k][1] # "get"

\* The records of page p in all_patents.
PatentsOfPage(p) == SelectSeq(all_patents, LAMBDA rec : rec[1] = p)

\* Page p was attempted and no attempt was accepted.
OnlyFailed(p) ==
    /\ outcomes[p] # << >>
    /\ \A k \in 1..Len(outcomes[p]) : outcomes[p][k] # "accepted"

\* Page p was attempted and every attempt found a placeholder marker.
NeverReady(p) ==
    /\ outcomes[p] # << >>
    /\ \A k \in 1..Len(outcomes[p]) : outcomes[p][k] = "not_ready"

\* The while loop of page p has been left in the normal way.
PageDone(p) ==
    /\ start_page <= p
    /\ \/ p < page
       \/ p = page /\ pc \in { "rate_sleep", "for" }

SetupFailed == setupOutcome \notin { "none", "ok" }

(* ------------------------------ claims --------------------------------- *)

\* C1: whenever an attempt finds the page not ready and fewer than
\* max_retries attempts have been made for it, the retry counter is
\* incremented, rate_limit_delay * 2 is slept and the same page is next.
C1_NotReadyIsRetried ==
    [][ ( /\ pc = "while"
          /\ pc' # "finally"
          /\ retries < max_retries
          /\ Len(outcomes'[page]) = Len(outcomes[page]) + 1
          /\ outcomes'[page][Len(outcomes'[page])] = "not_ready"
          /\ Len(outcomes'[page]) < max_retries )
        => ( /\ retries' = retries + 1
             /\ page' = page
             /\ pc' = "while"
             /\ log'[Len(log')] = << "retry_sleep", rate_limit_delay * 2 >> ) ]_vars

\* C2 (scenario A): a page that shows a placeholder marker on every attempt
\* is navigated exactly max_retries times and contributes no record.
C2_ScenarioA ==
    \A p \in Pages :
        (PageDone(p) /\ NeverReady(p))
            => (Gets(p) = max_retries /\ PatentsOfPage(p) = << >>)

\* C3: once scrape_all_pages has been left, by return or by exception,
\* every driver that was created has been quit.
C3_DriverAlwaysQuit ==
    pc \in { "returned", "raised", "exit" }
        => CountEvents("create") = CountEvents("quit")

\* C4: a page whose attempts all failed (not ready, timeout, navigation or
\* parsing exception) contributes no record, and the failure does not end
\* the run: without an interrupt the finally block is reached only after
\* the whole range has been walked, and the call returns normally.
C4_PageFailureIsLocal ==
    /\ \A p \in Pages : OnlyFailed(p) => PatentsOfPage(p) = << >>
    /\ (pc = "finally" /\ exc = "none") => iter = end_page + 1
    /\ (setupOutcome = "ok" /\ pc \in { "returned", "raised", "exit" }
          /\ exc # "KeyboardInterrupt")
        => (exc = "none" /\ iter = end_page + 1)

C4_Witness ==
    /\ pc = "exit"
    /\ exit_code = 0
    /\ \E p, q \in Pages :
         /\ p < q
         /\ OnlyFailed(p)
         /\ outcomes[p][1] \in { "timeout", "error" }
         /\ PatentsOfPage(q) # << >>
         /\ all_patents = PatentsOfPage(q)

C6_RateLimit ==
    /\ \A i, j \in 1..Len(log) :
         ConsecutiveGets(i, j) => SleptBetween(i, j) >= rate_limit_delay
    /\ (pc = "for" /\ setupOutcome = "ok")
         => /\ CountEvents("rate_sleep") = iter - start_page
            /\ iter > start_page => log[Len(log)] = << "rate_sleep", rate_limit_delay >>

C6_Witness ==
    /\ rate_limit_delay > 0
    /\ \E i \in 1..Len(log) :
         /\ i + 2 <= Len(log)
         /\ log[i][1] = "get"
         /\ log[i + 1] = << "rate_sleep", rate_limit_delay >>
         /\ log[i + 2][1] = "get"
         /\ OnlyFailed(log[i][2])

\* C7: every run ends (the process exits), no page is attempted more than
\* max_retries times, and the page index only moves forward.
C7_Terminates ==
    /\ <>(pc = "exit")
    /\ [](\A p \in Pages : Len(outcomes[p]) <= max_retries /\ Gets(p) <= max_retries)
    /\ [][page' # page => (page' > page /\ page' = iter /\ iter' = iter + 1)]_vars

C7_Witness ==
    /\ pc = "exit"
    /\ exc = "none"
    /\ \E p, q \in Pages :
         /\ outcomes[p] = << "not_ready" >>
         /\ outcomes[q] = << "error" >>

\* C8: when scrape_all_pages completes after a successful setup, every page
\* index of [start_page, end_page] has been navigated at least once.
C8_AllPagesAttempted ==
    (setupOutcome = "ok" /\ exc = "none" /\ pc \in { "returned", "exit" })
        => \A p \in start_page..end_page : Gets(p) >= 1

\* C9: when setup_driver fails the run ends at once: setup is called once,
\* no page is navigated, nothing is slept and no record is produced.
C9_SetupFailureAborts ==
    SetupFailed
        => /\ setupCalls = 1
           /\ pc \in { "returned", "raised", "exit" }
           /\ CountEvents("get") = 0
           /\ \A i \in 1..Len(log) : ~IsSleep(log[i])
           /\ all_patents = << >>
           /\ ~saved
           /\ \A p \in Pages : outcomes[p] = << >>

C9_Witness ==
    /\ pc = "exit"
    /\ setupOutcome \in { "chrome_fails", "script_fails" }

\* C10: main exits 0 on every completed run and non-zero exactly when the
\* browser could not be acquired (a run cut short by an interrupt aside).
C10_ExitCode ==
    (pc = "exit" /\ exc # "KeyboardInterrupt")
        => (exit_code # 0 <=> setupOutcome # "ok")


\* C11: every run that acquired the browser and ran to its end has written
\* the run summary, also when no page yielded a record.
C11_SummaryAlways ==
    (pc = "exit" /\ setupOutcome = "ok" /\ exc = "none") => saved

\* all_patents is sorted by page index and, within a page, by the position
\* of the container the record came from.
PageOrdered(s) ==
    \A a, b \in 1..Len(s) :
        a < b => \/ s[a][1] < s[b][1]
                 \/ s[a][1] = s[b][1] /\ s[a][2] < s[b][2]

IsPrefix(s, t) == Len(s) <= Len(t) /\ SubSeq(t, 1, Len(s)) = s

\* C17: the record list is ordered by page index and, within a page, by
\* container position, and a step only ever appends to it.
C17_AppendOnlyOrdered ==
    /\ [](PageOrdered(all_patents))
    /\ [][IsPrefix(all_patents, all_patents')]_vars

C17_Witness ==
    /\ pc = "exit"
    /\ Len(all_patents) >= 3
    /\ \E a, b \in 1..Len(all_patents) :
         a < b /\ all_patents[a][1] = all_patents[b][1]
    /\ \E a, b \in 1..Len(all_patents) :
         a < b /\ all_patents[a][1] < all_patents[b][1]


\* The text has a character that is not whitespace.
HasVisibleChar(s) == \E i \in 1..Len(s) : ~IsSpace(s[i])

\* C12 as stated: is_valid() is (title != "" or patent_number != "").
C12_ValidIffNonEmpty ==
    pc = "ret" => (out <=> (arg.title # << >> \/ arg.patent_number # << >>))

\* C12 as amended: is_valid() is true exactly when the title or the patent
\* number has a character that is not whitespace, whatever the other fields
\* hold.
C12_ValidIffVisible ==
    pc = "ret" =>
        /\ out \in BOOLEAN
        /\ out <=> (HasVisibleChar(arg.title) \/ HasVisibleChar(arg.patent_number))

C12_Witness ==
    /\ pc = "ret"
    /\ arg.title = << " " >>
    /\ arg.patent_number = << >>
    /\ arg.organization # << >>
    /\ out = FALSE

\* The words of a text, each written as one text.
WordsOf(s) == split(s)

\* C14: a title of more than 10 words whose first floor(n/2) words equal
\* the remaining words is replaced by its first half; every other title is
\* returned with its whitespace runs collapsed and its ends trimmed.
C14_TitleCleaning ==
    pc = "ret" =>
        LET w == WordsOf(arg)
            n == Len(w)
            h == n \div 2
        IN  IF n > 10 /\ join(SubSeq(w, 1, h)) = join(SubSeq(w, h + 1, n))
            THEN out = join(SubSeq(w, 1, h))
            ELSE /\ out = join(w)
                 /\ Len(split(out)) = n

\* A title of 10 or fewer words with identical halves, left as it is.
C14_Witness ==
    /\ pc = "ret"
    /\ Len(WordsOf(arg)) = 6
    /\ SubSeq(WordsOf(arg), 1, 3) = SubSeq(WordsOf(arg), 4, 6)
    /\ arg # out
    /\ Len(split(out)) = 6


\* C13: every record of the list scrape_patent_page builds, from table rows
\* or from the div fallback, has a non-empty title or patent number.
C13_EmittedRecordsValid ==
    pc = "ret" =>
        \A i \in 1..Len(out) :
            out[i].title # << >> \/ out[i].patent_number # << >>

\* A row with a blank title and a blank number was dropped, and the list
\* comes from the div fallback.
C13_Witness ==
    /\ pc = "ret"
    /\ arg.rows # << >>
    /\ arg.rows[1].own = << >>
    /\ arg.rows[1].result_title = Present(<< >>)
    /\ arg.rows[1].publication_number = Present(<< " " >>)
    /\ out # << >>
    /\ out[1].patent_number = << >>

\* The page of scenario B: one container, title "Widget Improvement Widget
\* Improvement", identifier "CA1234567".
ScenarioBPage ==
    [ rows |-> << Container(<< >>, Present(WidgetTitle), Present(<< "CA1234567" >>), Absent) >>,
      divs |-> << >> ]

\* C15 as stated: scenario B yields one record, titled "Widget Improvement".
C15_ScenarioB ==
    (pc = "ret" /\ arg = ScenarioBPage) =>
        /\ Len(out) = 1
        /\ out[1].title = Text(<< "Widget", "Improvement" >>)
        /\ out[1].patent_number = << "CA1234567" >>

\* C15 as amended: scenario B yields exactly one valid record, with patent
\* number "CA1234567" and the title kept whole, "Widget Improvement Widget
\* Improvement" (4 words are not more than 10).
C15_ScenarioBKeepsTitle ==
    (pc = "ret" /\ arg = ScenarioBPage) =>
        /\ Len(out) = 1
        /\ is_valid(out[1])
        /\ out[1].title = Text(<< "Widget", "Improvement", "Widget", "Improvement" >>)
        /\ out[1].patent_number = << "CA1234567" >>

C15_Witness == pc = "ret" /\ arg = ScenarioBPage /\ Len(out) = 1

\* C16: a container whose full text holds a skip indicator yields no
\* record, whatever its title and patent-number elements hold.
C16_SkipRule ==
    (pc = "ret" /\ \E ind \in skip_indicators : Contains(get_text(arg), ind))
        => out = None

C16_Witness ==
    /\ pc = "ret"
    /\ Contains(get_text(arg), Text(<< "Keyword", "search" >>))
    /\ arg.result_title = Present(WidgetTitle)
    /\ arg.publication_number = Present(<< "CA1234567" >>)
    /\ out = None


\* C18: whether or not the wait for the in-progress marker timed out,
\* wait_for_content_load sleeps the settle delay once and then reports
\* ready exactly when the body text holds no placeholder marker.
C18_NoShortCircuit ==
    pc = "ret" =>
        /\ out.events = << << "settle_sleep", 5 >> >>
        /\ out.ready <=> (arg.markers = { })

\* The marker never went away in time, yet the page is found ready.
C18_Witness ==
    /\ pc = "ret"
    /\ arg.wait = "timeout"
    /\ arg.markers = { }
    /\ out.ready

\* C19: a multi-valued field holds no entry twice.
C19_NoDuplicates ==
    (pc = "ret" /\ out.some) =>
        \A i, j \in 1..Len(out.list) : i # j => out.list[i] # out.list[j]

\* The same identifier matched twice in one container and again in another.
C19_Witness ==
    /\ pc = "ret"
    /\ arg.field = "cited_patents"
    /\ arg.found[1] = << << << "US", 1 >>, << "US", 1 >> >> >>
    /\ arg.found[2] = << << << "US", 1 >> >> >>
    /\ out.some
    /\ out.list = << << "US", 1 >> >>

\* A field of the configuration file is present.
Configured(file, f) ==
    file.status = "loaded" /\ file.has_scraper /\ file.scraper[f].present

\* C20: every field that is absent from the configuration takes its
\* default (1, 20, 30, 5, 3 and the default endpoint), also when the file is
\* missing or cannot be parsed; every field that is present keeps its value.
C20_DefaultsPerField ==
    pc = "ret" =>
        /\ out.start_page =
             IF Configured(arg, "start_page") THEN arg.scraper.start_page.value ELSE 1
        /\ out.end_page =
             IF Configured(arg, "end_page") THEN arg.scraper.end_page.value ELSE 20
        /\ out.timeout =
             IF Configured(arg, "timeout") THEN arg.scraper.timeout.value ELSE 30
        /\ out.rate_limit_delay =
             IF Configured(arg, "rate_limit_delay")
             THEN arg.scraper.rate_limit_delay.value ELSE 5
        /\ out.max_retries =
             IF Configured(arg, "max_retries") THEN arg.scraper.max_retries.value ELSE 3
        /\ out.base_url =
             IF Configured(arg, "base_url") THEN arg.scraper.base_url.value
             ELSE "https://ised-isde.canada.ca/ipm-mcpi/patents-brevets"

C20_Witness ==
    /\ pc = "ret"
    /\ Configured(arg, "start_page")
    /\ ~Configured(arg, "end_page")
    /\ Configured(arg, "max_retries")
    /\ out.start_page = 0
    /\ out.end_page = 20
    /\ out.max_retries = 42


\* C21: the summary lists as scraped only pages that were attempted and
\* accepted; a page that was given up on, or never attempted, is told apart.
C21_SkippedPagesRecorded ==
    summary.written =>
        \A i \in 1..Len(summary.pages_scraped) :
            \E k \in 1..Len(outcomes[summary.pages_scraped[i]]) :
                outcomes[summary.pages_scraped[i]][k] = "accepted"

\* C22: the div fallback runs exactly when the primary strategy located no
\* candidate container; with a candidate container the list holds only what
\* the candidates yield, even when that is nothing.
C22_FallbackIffNoCandidates ==
    pc = "ret" =>
        /\ div_fallback_runs(arg) <=> (candidate_rows(arg) = << >>)
        /\ candidate_rows(arg) # << >> => out = primary_patents(arg)

\* C23: a field whose structural selector matches nothing or yields empty
\* text is filled from the container's full text by a pattern of that field,
\* and stays empty only when the text holds nothing the pattern matches;
\* stated here for the patent number, whose pattern matches "CA1234567".
C23_FieldPatternFallback ==
    (/\ pc = "ret"
     /\ out.some
     /\ StrippedText(arg.publication_number) = << >>
     /\ Contains(get_text(arg), << "CA1234567" >>))
        => out.patent.patent_number # << >>

\* The container holds no skip indicator.
NotSkipped(item) == ~has_skip_indicator(strip(get_text(item)))

\* C24: a field that cannot be extracted is left empty and the record or
\* the dictionary is produced all the same.  For a container: a field
\* whose selector matches nothing is empty in the record (the title, unless
\* a text line serves as title), and a container whose title or patent
\* number element holds visible text yields a record.  For get_patent_info:
\* after a successful fetch there is no error, a helper that raised or
\* found nothing gives None and every other helper gives its value.
C24_FieldFailureIsLocal ==
    pc = "ret" =>
        /\ ("own" \in DOMAIN arg /\ out.some) =>
             /\ ~arg.publication_number.present => out.patent.patent_number = << >>
             /\ ~arg.invention_description.present => out.patent.description = << >>
             /\ ~arg.organisation.present => out.patent.organization = << >>
             /\ (~arg.result_title.present /\ CharLen(strip(get_text(arg))) <= 10)
                    => out.patent.title = << >>
        /\ ("own" \in DOMAIN arg /\ NotSkipped(arg)
              /\ \/ HasVisibleChar(StrippedText(arg.result_title))
                 \/ HasVisibleChar(StrippedText(arg.publication_number)))
             => out.some
        /\ ("fetch" \in DOMAIN arg /\ arg.fetch = "ok") =>
             /\ ~out.error
             /\ \A f \in InfoFields :
                  out.info[f] = IF arg.helpers[f] = "found" THEN "value" ELSE "None"

\* The abstract helper raised; the title is extracted and there is no error.
C24_Witness ==
    /\ pc = "ret"
    /\ "fetch" \in DOMAIN arg
    /\ arg.fetch = "ok"
    /\ arg.helpers["abstract"] = "raises"
    /\ arg.helpers["title"] = "found"
    /\ ~out.error
    /\ out.info["abstract"] = "None"
    /\ out.info["title"] = "value"

\* The text has no whitespace but single spaces between words.
SingleSpaced(s) ==
    /\ \A i \in 1..Len(s) : IsSpace(s[i]) => s[i] = " "
    /\ \A i \in 1..(Len(s) - 1) : ~(IsSpace(s[i]) /\ IsSpace(s[i + 1]))

\* C25: in an emitted record the title and the description hold no run of
\* whitespace and no whitespace character other than a single space.
C25_FreeTextCollapsed ==
    (pc = "ret" /\ out.some) =>
        /\ SingleSpaced(out.patent.title)
        /\ SingleSpaced(out.patent.description)

\* C26: one browser session per run: the driver is created at most once,
\* every navigation comes after the creation and before the quit, on the
\* driver that was created, and the navigations follow one another in page
\* order.
C26_SingleSession ==
    /\ setupCalls <= 1
    /\ CountEvents("create") <= 1
    /\ \A i \in 1..Len(log) :
         log[i][1] = "get" =>
            /\ driver = "Chrome"
            /\ \E j \in 1..(i - 1) : log[j][1] = "create"
            /\ \A j \in 1..(i - 1) : log[j][1] # "quit"
            /\ \A j \in 1..(i - 1) : log[j][1] = "get" => log[j][2] < log[i][2]

\* Two pages were navigated and the driver was quit after them.
C26_Witness ==
    /\ pc = "exit"
    /\ CountEvents("get") = 2
    /\ log[1] = << "create", 0 >>
    /\ log[Len(log)] = << "quit", 0 >>

\* C27: scrape_patent_page raises nothing to its caller and a page that is
\* not ready, times out or fails gives no record; so no retry sleep is ever
\* executed, no page is passed to scrape_patent_page twice, and with
\* max_retries >= 1 every page the loop is done with was passed exactly once.
C27_NoExceptionNoRetry ==
    /\ exc \in { "none", "SetupError", "KeyboardInterrupt" }
    /\ retries = 0
    /\ CountEvents("retry_sleep") = 0
    /\ \A p \in Pages :
         /\ Len(outcomes[p]) <= 1
         /\ Gets(p) <= 1
         /\ OnlyFailed(p) => PatentsOfPage(p) = << >>
         /\ (max_retries >= 1 /\ PageDone(p)) => Len(outcomes[p]) = 1

\* Two retries were allowed, yet a failed page and a page that was not
\* ready were each passed once.
C27_Witness ==
    /\ pc = "exit"
    /\ max_retries = 2
    /\ outcomes[1] = << "error" >>
    /\ outcomes[2] = << "not_ready" >>
    /\ CountEvents("retry_sleep") = 0

\* C28: with max_retries zero or negative and the driver started, no page
\* is navigated and no record collected; a run that is not interrupted
\* sleeps rate_limit_delay once for every page index of the range, returns
\* the empty list and quits the driver.
C28_NoRetriesNoNavigation ==
    (max_retries <= 0 /\ setupOutcome = "ok") =>
        /\ CountEvents("get") = 0
        /\ all_patents = << >>
        /\ \A p \in Pages : outcomes[p] = << >>
        /\ \A i \in 1..Len(log) :
             log[i][1] \in { "create", "rate_sleep", "quit" }
             /\ (log[i][1] = "rate_sleep" => log[i][2] = rate_limit_delay)
        /\ (pc \in { "returned", "exit" } /\ exc = "none") =>
             /\ CountEvents("rate_sleep") = end_page - start_page + 1
             /\ CountEvents("quit") = 1
             /\ log[Len(log)] = << "quit", 0 >>

\* A negative max_retries and a range of two pages: two sleeps, no navigation.
C28_Witness ==
    /\ pc = "exit"
    /\ exc = "none"
    /\ setupOutcome = "ok"
    /\ max_retries < 0
    /\ end_page = start_page + 1
    /\ CountEvents("rate_sleep") = 2
    /\ CountEvents("get") = 0

\* C29 as stated: cleaning a cleaned title changes nothing.
C29_Idempotent == pc = "ret" => out.twice = out.once

\* C29 as amended: cleaning a cleaned title changes nothing when the title
\* has at most 21 words; for a longer title the second cleaning changes the
\* result only when the first result still has more than 10 words and equal
\* halves, and then it halves it again.
C29_IdempotentUpTo21Words ==
    pc = "ret" =>
        LET w == WordsOf(out.once)
            n == Len(w)
            h == n \div 2
        IN  /\ Len(WordsOf(arg)) <= 21 => out.twice = out.once
            /\ out.twice # out.once =>
                 /\ n > 10
                 /\ SubSeq(w, 1, h) = SubSeq(w, h + 1, n)
                 /\ out.twice = join(SubSeq(w, 1, h))

\* Four repetitions of a 6-word phrase: 24 words, then 12, then 6.
C29_Witness ==
    /\ pc = "ret"
    /\ Len(WordsOf(arg)) = 24
    /\ Len(WordsOf(out.once)) = 12
    /\ Len(WordsOf(out.twice)) = 6

\* C30: in a written summary the counts of records with a title, with a
\* number and of distinct organizations are at most total_patents,
\* total_patents is at most the sum of the first two, and pages_scraped is
\* the whole range start_page..end_page whichever pages yielded records.
C30_SummaryCounts ==
    (pc = "ret" /\ out.written) =>
        /\ out.patents_with_titles <= out.total_patents
        /\ out.patents_with_numbers <= out.total_patents
        /\ out.unique_organizations <= out.total_patents
        /\ out.total_patents <= out.patents_with_titles + out.patents_with_numbers
        /\ Len(out.pages_scraped) = arg.end_page - arg.start_page + 1
        /\ \A i \in 1..Len(out.pages_scraped) :
             out.pages_scraped[i] = arg.start_page + i - 1

\* Page 1 of the range 1..2 yielded nothing and is listed all the same;
\* the one record has both a title and a number.
C30_Witness ==
    /\ pc = "ret"
    /\ out.written
    /\ arg.start_page = 1
    /\ arg.end_page = 2
    /\ arg.per_page[1] = << >>
    /\ out.pages_scraped = << 1, 2 >>
    /\ out.total_patents = 1
    /\ out.patents_with_titles = 1
    /\ out.patents_with_numbers = 1
    /\ out.unique_organizations = 1

=============================================================================
